---- MODULE Spec2Model ----
(***************************************************************************)
(* Model of the client-side scripts of the blog.                            *)
(*                                                                         *)
(* Theme / palette preference store (src/src/scripts/theme.ts): the        *)
(* browser objects the script touches (local storage, the                  *)
(* prefers-color-scheme media query, window.theme, the document) are the   *)
(* state; the module body and each event handler is one action.            *)
(*                                                                         *)
(* Code-block collapse widget (the script of the Playwright post) and      *)
(* legacy profile renderer: each has its own state and specification.      *)
(***************************************************************************)
EXTENDS Integers, Sequences, FiniteSets, TLC

VARIABLES
    phase,              \* "boot": module not yet evaluated, "idle", "swapping",
                        \* "closed": no page of the site is open
    initialColorScheme, \* the site default the build was configured with
    localStorage,       \* key -> string, Null when the key is missing
    osDark,             \* matchMedia("(prefers-color-scheme: dark)").matches
    windowTheme,        \* the global window.theme object
    themeValue,         \* module variable themeValue
    paletteValue,       \* module variable paletteValue
    document,           \* the current document
    newDocument,        \* the incoming document of a page transition
    swaps,              \* number of page transitions so far
    lastOp,             \* the handler that ran last
    pre,                \* in-memory theme before the last toggle click
    calls,              \* what the last dispatched event executed
    ret,                \* result of the last direct call of a function
    \* code-block collapse widget
    blocks,             \* the "pre > code" elements of the post, in order
    containers,         \* the containers of the code blocks
    passes,             \* enhancement passes run so far
    clicks,             \* per container, clicks on its toggle so far
    widgetOp,           \* the widget operation that ran last
    text,               \* argument of a direct call of getLineCount
    \* legacy profile renderer
    fetched,            \* the profile document the server holds
    profile,            \* module variable profile
    html,               \* element id -> what was rendered into it
    location,           \* window.location.href
    request             \* state of the $.get request

widgetVars == <<blocks, containers, passes, clicks, widgetOp, text>>

profileVars == <<fetched, profile, html, location, request>>

vars == <<phase, initialColorScheme, localStorage, osDark, windowTheme,
          themeValue, paletteValue, document, newDocument, swaps,
          lastOp, pre, calls, ret, widgetVars, profileVars>>

-----------------------------------------------------------------------------
(* Constants of theme.ts *)

THEME == "theme"
PALETTE == "palette"
LIGHT == "light"
DARK == "dark"
DEFAULT_PALETTE == "fjord"

\* null / undefined: the value of a missing key, attribute or element
Null == "<null>"

\* JavaScript truthiness of a string-or-null value
Truthy(s) == s # Null /\ s # ""

-----------------------------------------------------------------------------
(* Bounds and input domains *)

\* page transitions followed in one visit
MaxSwaps == 1

SiteDefaults == {"", LIGHT, DARK}
StoredThemes == {Null, "", LIGHT, DARK, "sepia"}
StoredPalettes == {Null, "", "ocean"}
InlineThemes == {LIGHT, DARK, "sepia"}
InlinePalettes == {"", "ocean"}
HookThemes == {LIGHT, DARK, "sepia"}
HookPalettes == {"", "ocean"}
\* the option values offered by the #palette-select control
PaletteOptions == {DEFAULT_PALETTE, "ocean"}

-----------------------------------------------------------------------------
(* Resolution of the preference *)

\* variant: the stored theme is not consulted
getPreferTheme_ignoresStorage(ls, ics, dark) ==
    IF Truthy(ics) THEN ics
    ELSE IF dark THEN DARK ELSE LIGHT

\* variant: the site default is skipped
getPreferTheme_noSiteDefault(ls, ics, dark) ==
    IF Truthy(ls[THEME]) THEN ls[THEME]
    ELSE IF dark THEN DARK ELSE LIGHT

getPreferTheme(ls, ics, dark) ==
    IF Truthy(ls[THEME]) THEN ls[THEME]
    ELSE IF Truthy(ics) THEN ics
    ELSE IF dark THEN DARK ELSE LIGHT

\* variant: the injected palette is skipped
getPreferPalette_noInjected(ls, wt) ==
    IF Truthy(ls[PALETTE]) THEN ls[PALETTE] ELSE DEFAULT_PALETTE

getPreferPalette(ls, wt) ==
    IF Truthy(ls[PALETTE]) THEN ls[PALETTE]
    ELSE IF wt.owner # "none" /\ Truthy(wt.paletteValue) THEN wt.paletteValue
    ELSE DEFAULT_PALETTE

\* variant: the value of the inline bootstrap is not adopted
initThemeValue_detect(wt, ls, ics, dark) == getPreferTheme(ls, ics, dark)

\* let themeValue = window.theme?.themeValue ?? getPreferTheme()
initThemeValue(wt, ls, ics, dark) ==
    IF wt.owner # "none" /\ wt.themeValue # Null THEN wt.themeValue
    ELSE getPreferTheme(ls, ics, dark)

\* let paletteValue = window.theme?.paletteValue ?? getPreferPalette()
initPaletteValue(wt, ls) ==
    IF wt.owner # "none" /\ wt.paletteValue # Null THEN wt.paletteValue
    ELSE getPreferPalette(ls, wt)

-----------------------------------------------------------------------------
(* The document *)

\* window.getComputedStyle(body).backgroundColor: the style sheet derives
\* the colour from the root's data-theme / data-palette attributes
backgroundColor(doc) == <<"bg", doc.dataTheme, doc.dataPalette>>

\* HTMLSelectElement.value setter: selects the option with that value, and
\* leaves no option selected (value "") when there is none
selectValueSet(v) == IF v \in PaletteOptions THEN v ELSE ""

\* a freshly parsed page with the given elements
page(body, btn, select, meta) ==
    [ body |-> body, btn |-> btn, select |-> select, meta |-> meta,
      dataTheme |-> Null, dataPalette |-> Null,
      ariaLabel |-> Null,
      selectValue |-> IF select THEN DEFAULT_PALETTE ELSE Null,
      metaContent |-> IF meta THEN "" ELSE Null,
      onclick |-> 0, onchange |-> 0 ]

\* the pages of the site: the script may run before the body is parsed
\* (no body, hence no controls), and a page may lack any one of the
\* toggle button, the palette select and the theme-color meta tag
Pages == { page(FALSE, FALSE, FALSE, TRUE),
           page(TRUE, TRUE, TRUE, TRUE),
           page(TRUE, FALSE, TRUE, TRUE),
           page(TRUE, TRUE, FALSE, TRUE),
           page(TRUE, TRUE, TRUE, FALSE) }

NoDocument == page(FALSE, FALSE, FALSE, FALSE)

\* variant: the theme-color is recomputed without testing for the body
reflectPreference_noBodyGuard(doc, t, p) ==
    LET d1 == [doc EXCEPT !.dataTheme = t, !.dataPalette = p]
        d2 == IF d1.btn THEN [d1 EXCEPT !.ariaLabel = t] ELSE d1
        d3 == IF d2.select THEN [d2 EXCEPT !.selectValue = selectValueSet(p)]
              ELSE d2
    IN  IF d3.meta
        THEN [d3 EXCEPT !.metaContent = backgroundColor(d3)]
        ELSE d3

\* variant: data-palette is set from the theme
reflectPreference_paletteFromTheme(doc, t, p) ==
    LET d1 == [doc EXCEPT !.dataTheme = t, !.dataPalette = t]
        d2 == IF d1.btn THEN [d1 EXCEPT !.ariaLabel = t] ELSE d1
        d3 == IF d2.select THEN [d2 EXCEPT !.selectValue = selectValueSet(p)]
              ELSE d2
    IN  IF d3.body /\ d3.meta
        THEN [d3 EXCEPT !.metaContent = backgroundColor(d3)]
        ELSE d3

reflectPreference(doc, t, p) ==
    LET d1 == [doc EXCEPT !.dataTheme = t, !.dataPalette = p]
        d2 == IF d1.btn THEN [d1 EXCEPT !.ariaLabel = t] ELSE d1
        d3 == IF d2.select THEN [d2 EXCEPT !.selectValue = selectValueSet(p)]
              ELSE d2
    IN  IF d3.body /\ d3.meta
        THEN [d3 EXCEPT !.metaContent = backgroundColor(d3)]
        ELSE d3

\* variant: the palette is not written
setItems_themeOnly(ls, t, p) == [ls EXCEPT ![THEME] = t]

\* localStorage.setItem(THEME, themeValue); localStorage.setItem(PALETTE, ...)
setItems(ls, t, p) == [ls EXCEPT ![THEME] = t, ![PALETTE] = p]

\* variant: addEventListener, which adds to the handlers already bound
assignHandler_stack(bound) == bound + 1

\* element.onclick = handler / element.onchange = handler: the property
\* holds one handler, whatever was bound before
assignHandler(bound) == 1

setThemeFeature(doc, t, p) ==
    LET d == reflectPreference(doc, t, p)
    IN  IF d.btn THEN [d EXCEPT !.onclick = assignHandler(d.onclick)] ELSE d

setPaletteFeature(doc) ==
    IF doc.select THEN [doc EXCEPT !.onchange = assignHandler(doc.onchange)]
    ELSE doc

setupThemeControls(doc, t, p) == setPaletteFeature(setThemeFeature(doc, t, p))

-----------------------------------------------------------------------------
(* The global theme object *)

NoTheme == [ owner |-> "none", themeValue |-> Null, paletteValue |-> Null,
             setPreference |-> "none", reflectPreference |-> "none" ]

\* the object an inline bootstrap script leaves behind
inlineTheme(tv, pv) ==
    [ owner |-> "inline", themeValue |-> tv, paletteValue |-> pv,
      setPreference |-> "inline", reflectPreference |-> "inline" ]

\* if (window.theme) {...} else { window.theme = {...} }
updateThemeAPI(wt, t, p) ==
    IF wt.owner # "none"
    THEN [wt EXCEPT !.setPreference = "module", !.reflectPreference = "module"]
    ELSE [ owner |-> "module", themeValue |-> t, paletteValue |-> p,
           setPreference |-> "module", reflectPreference |-> "module" ]

\* variant: the toggle only ever switches to dark
toggle_stuck(t) == DARK

\* themeValue === LIGHT ? DARK : LIGHT
toggle(t) == IF t = LIGHT THEN DARK ELSE LIGHT

\* variant: the branches are swapped
schemeOf_inverted(isDark) == IF isDark THEN LIGHT ELSE DARK

\* isDark ? DARK : LIGHT
schemeOf(isDark) == IF isDark THEN DARK ELSE LIGHT

\* variant: the selected value is not adopted
adoptSelected_stale(current, selected) == current

\* the value the onchange handler adopts: paletteSelect.value
adoptSelected(current, selected) == selected

\* window.theme.setTheme / setPalette of the object the module created:
\* assigns the module variable
moduleSet(current, val) == val

\* setTheme / setPalette of an object created by the inline bootstrap cannot
\* reach the module's variables; it records the value on the object
inlineSetTheme(wt, val) == [wt EXCEPT !.themeValue = val]
inlineSetPalette(wt, val) == [wt EXCEPT !.paletteValue = val]

\* window.theme?.setTheme(val) as seen from the module: new <<object, variable>>
callSetTheme(wt, cur, val) ==
    IF wt.owner = "module" THEN <<wt, moduleSet(cur, val)>>
    ELSE IF wt.owner = "inline" THEN <<inlineSetTheme(wt, val), cur>>
    ELSE <<wt, cur>>

callSetPalette(wt, cur, val) ==
    IF wt.owner = "module" THEN <<wt, moduleSet(cur, val)>>
    ELSE IF wt.owner = "inline" THEN <<inlineSetPalette(wt, val), cur>>
    ELSE <<wt, cur>>

NoCalls == [ handler |-> 0, setPreference |-> 0 ]

\* no getter of window.theme has been called since the last operation
NoReturn == [ fn |-> "none", val |-> Null ]

\* variant: the getter reads the field of the object
getTheme_snapshot(wt, t) == wt.themeValue

\* getTheme: () => themeValue, on the object wt the module created
getTheme(wt, t) == t

\* getPalette: () => paletteValue
getPalette(wt, p) == p

-----------------------------------------------------------------------------
(* A page without code blocks, and no profile page *)

NoWidget ==
    /\ blocks = <<>>
    /\ containers = <<>>
    /\ passes = 0
    /\ clicks = <<>>
    /\ widgetOp = "none"
    /\ text = <<>>

NoProfile ==
    /\ fetched = Null
    /\ profile = Null
    /\ html = <<>>
    /\ location = Null
    /\ request = "none"

-----------------------------------------------------------------------------
(* Initial state: the page has been parsed, the module has not run yet *)

store(t, p) == [ k \in {THEME, PALETTE} |-> IF k = THEME THEN t ELSE p ]

GlobalThemes ==
    {NoTheme} \cup { inlineTheme(tv, pv) : tv \in InlineThemes,
                                          pv \in InlinePalettes }

\* the state before the module runs, for a site configured with default ics
Boot(ics) ==
    /\ phase = "boot"
    /\ initialColorScheme = ics
    /\ localStorage \in { store(t, p) : t \in StoredThemes,
                                        p \in StoredPalettes }
    /\ osDark \in BOOLEAN
    /\ windowTheme \in GlobalThemes
    /\ themeValue = Null
    /\ paletteValue = Null
    /\ document \in Pages
    /\ newDocument = NoDocument
    /\ swaps = 0
    /\ lastOp = [op |-> "none", arg |-> Null]
    /\ pre = Null
    /\ calls = NoCalls
    /\ ret = [fn |-> "none", val |-> Null]
    /\ NoWidget
    /\ NoProfile

\* const initialColorScheme = "" (theme.ts line 10)
Init == Boot("")

-----------------------------------------------------------------------------
(* Evaluation of the module body (theme.ts lines 31-33, 69-91, 128-156) *)

Load ==
    /\ phase = "boot"
    /\ LET t == initThemeValue(windowTheme, localStorage,
                               initialColorScheme, osDark)
           p == initPaletteValue(windowTheme, localStorage)
       IN  /\ themeValue' = t
           /\ paletteValue' = p
           /\ windowTheme' = updateThemeAPI(windowTheme, t, p)
           /\ document' = setupThemeControls(
                              reflectPreference(document, t, p), t, p)
    /\ phase' = "idle"
    /\ lastOp' = [op |-> "load", arg |-> lastOp.arg]
    /\ pre' = Null
    /\ calls' = NoCalls
    /\ UNCHANGED <<widgetVars, profileVars, swaps, initialColorScheme, localStorage, osDark, newDocument>>
    /\ ret' = NoReturn

-----------------------------------------------------------------------------
(* Event handlers *)

RECURSIVE toggleN(_, _)
toggleN(t, n) == IF n = 0 THEN t ELSE toggleN(toggle(t), n - 1)

\* click on #theme-btn: every bound handler runs
\*   themeValue = toggle; window.theme?.setTheme(themeValue); setPreference()
Click ==
    /\ phase = "idle"
    /\ document.btn
    /\ document.onclick >= 1
    /\ LET n == document.onclick
           t == toggleN(themeValue, n)
           r == callSetTheme(windowTheme, t, t)
       IN  /\ themeValue' = r[2]
           /\ windowTheme' = r[1]
           /\ localStorage' = setItems(localStorage, r[2], paletteValue)
           /\ document' = reflectPreference(document, r[2], paletteValue)
           /\ calls' = [handler |-> n, setPreference |-> n]
    /\ lastOp' = [op |-> "click",
                  arg |-> IF lastOp.op = "click" THEN "again" ELSE "first"]
    /\ pre' = themeValue
    /\ UNCHANGED <<widgetVars, profileVars, swaps, phase, initialColorScheme, osDark, paletteValue,
                   newDocument>>
    /\ ret' = NoReturn

\* the user picks option sel of #palette-select: every bound handler runs
\*   paletteValue = paletteSelect.value; window.theme?.setPalette(..);
\*   setPreference()
Select(sel) ==
    /\ phase = "idle"
    /\ document.select
    /\ document.onchange >= 1
    /\ LET n == document.onchange
           d == [document EXCEPT !.selectValue = sel]
           p == adoptSelected(paletteValue, d.selectValue)
           r == callSetPalette(windowTheme, p, p)
       IN  /\ paletteValue' = r[2]
           /\ windowTheme' = r[1]
           /\ localStorage' = setItems(localStorage, themeValue, r[2])
           /\ document' = reflectPreference(d, themeValue, r[2])
           /\ calls' = [handler |-> n, setPreference |-> n]
    /\ lastOp' = [op |-> "select", arg |-> sel]
    /\ pre' = Null
    /\ UNCHANGED <<widgetVars, profileVars, swaps, phase, initialColorScheme, osDark, themeValue,
                   newDocument>>
    /\ ret' = NoReturn

\* the prefers-color-scheme media query changes
\*   themeValue = isDark ? DARK : LIGHT; window.theme?.setTheme(..);
\*   setPreference()
OsChange ==
    /\ phase = "idle"
    /\ osDark' = ~osDark
    /\ LET t == schemeOf(osDark')
           r == callSetTheme(windowTheme, t, t)
       IN  /\ themeValue' = r[2]
           /\ windowTheme' = r[1]
           /\ localStorage' = setItems(localStorage, r[2], paletteValue)
           /\ document' = reflectPreference(document, r[2], paletteValue)
    /\ calls' = [handler |-> 1, setPreference |-> 1]
    /\ lastOp' = [op |-> "oschange", arg |-> Null]
    /\ pre' = Null
    /\ UNCHANGED <<widgetVars, profileVars, swaps, phase, initialColorScheme, paletteValue, newDocument>>
    /\ ret' = NoReturn

\* variant: the content is copied without testing that it is non-empty
carryThemeColor_unguarded(doc, next) ==
    IF next.meta THEN [next EXCEPT !.metaContent = doc.metaContent] ELSE next

\* astro:before-swap: carry the theme-color of this document to the next
carryThemeColor(doc, next) ==
    IF Truthy(doc.metaContent) /\ next.meta
    THEN [next EXCEPT !.metaContent = doc.metaContent]
    ELSE next

BeforeSwap(next) ==
    /\ phase = "idle"
    /\ swaps < MaxSwaps
    /\ swaps' = swaps + 1
    /\ newDocument' = carryThemeColor(document, next)
    /\ phase' = "swapping"
    /\ lastOp' = [op |-> "beforeSwap", arg |-> Null]
    /\ pre' = Null
    /\ calls' = NoCalls
    /\ UNCHANGED <<widgetVars, profileVars, initialColorScheme, localStorage, osDark, windowTheme,
                   themeValue, paletteValue, document>>
    /\ ret' = NoReturn

\* the incoming document replaces the current one; a control that persists
\* across the transition is the same element as before: it keeps its
\* aria-label or selected value and the handler bound to it
swapIn(doc, next, persist) ==
    LET keepBtn == persist /\ doc.btn /\ next.btn
        keepSelect == persist /\ doc.select /\ next.select
    IN  [next EXCEPT
           !.ariaLabel = IF keepBtn THEN doc.ariaLabel ELSE @,
           !.onclick = IF keepBtn THEN doc.onclick ELSE 0,
           !.selectValue = IF keepSelect THEN doc.selectValue ELSE @,
           !.onchange = IF keepSelect THEN doc.onchange ELSE 0]

\* astro:after-swap: setupThemeControls on the swapped-in document
AfterSwap(persist) ==
    /\ phase = "swapping"
    /\ document' = setupThemeControls(swapIn(document, newDocument, persist),
                                      themeValue, paletteValue)
    /\ newDocument' = NoDocument
    /\ phase' = "idle"
    /\ lastOp' = [op |-> "afterSwap", arg |-> Null]
    /\ pre' = Null
    /\ calls' = NoCalls
    /\ UNCHANGED <<widgetVars, profileVars, swaps, initialColorScheme, localStorage, osDark, windowTheme,
                   themeValue, paletteValue>>
    /\ ret' = NoReturn

-----------------------------------------------------------------------------
(* The hooks exposed on window.theme, called by other scripts *)

SetTheme(val) ==
    /\ phase = "idle"
    /\ LET r == callSetTheme(windowTheme, themeValue, val)
       IN  /\ windowTheme' = r[1]
           /\ themeValue' = r[2]
    /\ lastOp' = [op |-> "setTheme", arg |-> val]
    /\ pre' = Null
    /\ calls' = NoCalls
    /\ UNCHANGED <<widgetVars, profileVars, swaps, phase, initialColorScheme, localStorage, osDark,
                   paletteValue, document, newDocument>>
    /\ ret' = NoReturn

SetPalette(val) ==
    /\ phase = "idle"
    /\ LET r == callSetPalette(windowTheme, paletteValue, val)
       IN  /\ windowTheme' = r[1]
           /\ paletteValue' = r[2]
    /\ lastOp' = [op |-> "setPalette", arg |-> val]
    /\ pre' = Null
    /\ calls' = NoCalls
    /\ UNCHANGED <<widgetVars, profileVars, swaps, phase, initialColorScheme, localStorage, osDark,
                   themeValue, document, newDocument>>
    /\ ret' = NoReturn

\* window.theme.setPreference()
SetPreference ==
    /\ phase = "idle"
    /\ windowTheme.setPreference = "module"
    /\ localStorage' = setItems(localStorage, themeValue, paletteValue)
    /\ document' = reflectPreference(document, themeValue, paletteValue)
    /\ lastOp' = [op |-> "setPreference", arg |-> Null]
    /\ pre' = Null
    /\ calls' = [handler |-> 0, setPreference |-> 1]
    /\ UNCHANGED <<widgetVars, profileVars, swaps, phase, initialColorScheme, osDark, windowTheme, themeValue,
                   paletteValue, newDocument>>
    /\ ret' = NoReturn

\* window.theme.reflectPreference()
ReflectPreference ==
    /\ phase = "idle"
    /\ windowTheme.reflectPreference = "module"
    /\ document' = reflectPreference(document, themeValue, paletteValue)
    /\ lastOp' = [op |-> "reflectPreference", arg |-> Null]
    /\ pre' = Null
    /\ calls' = NoCalls
    /\ UNCHANGED <<widgetVars, profileVars, swaps, phase, initialColorScheme, localStorage, osDark,
                   windowTheme, themeValue, paletteValue, newDocument>>
    /\ ret' = NoReturn

\* the visitor leaves the site: the page and the module state are gone,
\* local storage is kept.  The preference a mutation left behind is
\* remembered in lastOp.arg.
Reload ==
    /\ phase = "idle"
    /\ phase' = "closed"
    /\ themeValue' = Null
    /\ paletteValue' = Null
    /\ windowTheme' = NoTheme
    /\ document' = NoDocument
    /\ newDocument' = NoDocument
    /\ swaps' = 0
    /\ lastOp' = [op |-> "reload",
                  arg |-> IF lastOp.op \in {"click", "select", "oschange"}
                          THEN <<themeValue, paletteValue>> ELSE Null]
    /\ pre' = Null
    /\ calls' = NoCalls
    /\ UNCHANGED <<widgetVars, profileVars, initialColorScheme, localStorage, osDark>>
    /\ ret' = NoReturn

\* ... and later opens a page of the site again: a fresh document, with or
\* without an inline bootstrap, under whatever the OS scheme is by then
Open(doc, wt, dark) ==
    /\ phase = "closed"
    /\ phase' = "boot"
    /\ document' = doc
    /\ windowTheme' = wt
    /\ osDark' = dark
    /\ UNCHANGED <<widgetVars, profileVars, initialColorScheme, localStorage, themeValue, paletteValue,
                   newDocument, swaps, lastOp, pre, calls, ret>>

\* another script reads window.theme.getTheme() and window.theme.getPalette()
\* of the object the module created
CallGetters ==
    /\ phase = "idle"
    /\ windowTheme.owner = "module"
    /\ ret' = [fn |-> "getters",
               val |-> <<getTheme(windowTheme, themeValue),
                         getPalette(windowTheme, paletteValue)>>]
    /\ lastOp' = [op |-> "get", arg |-> Null]
    /\ pre' = Null
    /\ calls' = NoCalls
    /\ UNCHANGED <<widgetVars, profileVars, swaps, phase, initialColorScheme,
                   localStorage, osDark, windowTheme, themeValue,
                   paletteValue, document, newDocument>>

Next ==
    \/ Load
    \/ Click
    \/ \E sel \in PaletteOptions : Select(sel)
    \/ OsChange
    \/ \E next \in Pages : BeforeSwap(next)
    \/ \E persist \in BOOLEAN : AfterSwap(persist)
    \/ \E val \in HookThemes : SetTheme(val)
    \/ \E val \in HookPalettes : SetPalette(val)
    \/ SetPreference
    \/ ReflectPreference
    \/ CallGetters
    \/ Reload
    \/ \E doc \in Pages, wt \in GlobalThemes, dark \in BOOLEAN :
          Open(doc, wt, dark)

Spec == Init /\ [][Next]_vars

-----------------------------------------------------------------------------
(* The resolvers as functions of the browser state: each is called on      *)
(* every combination of stored values, site default, OS scheme and         *)
(* injected global object.                                                 *)

CallGetPreferTheme ==
    /\ phase = "boot"
    /\ ret' = [fn |-> "getPreferTheme",
               val |-> getPreferTheme(localStorage, initialColorScheme,
                                      osDark)]
    /\ UNCHANGED <<widgetVars, profileVars, swaps, phase, initialColorScheme, localStorage, osDark,
                   windowTheme, themeValue, paletteValue, document,
                   newDocument, lastOp, pre, calls>>

CallGetPreferPalette ==
    /\ phase = "boot"
    /\ ret' = [fn |-> "getPreferPalette",
               val |-> getPreferPalette(localStorage, windowTheme)]
    /\ UNCHANGED <<widgetVars, profileVars, swaps, phase, initialColorScheme, localStorage, osDark,
                   windowTheme, themeValue, paletteValue, document,
                   newDocument, lastOp, pre, calls>>

NextResolve == CallGetPreferTheme \/ CallGetPreferPalette

\* every documented configuration of the site default
InitResolve == \E ics \in SiteDefaults : Boot(ics)

SpecResolve == InitResolve /\ [][NextResolve]_vars

-----------------------------------------------------------------------------
(* Code-block collapse widget                                              *)
(* (src/content/posts/13-playwright-testing-mistakes-you-should-avoid/     *)
(*  index.md, lines 305-349)                                               *)

\* the theme script plays no part in the specifications below
NoThemeScript ==
    /\ phase = "boot"
    /\ initialColorScheme = ""
    /\ localStorage = store(Null, Null)
    /\ osDark = FALSE
    /\ windowTheme = NoTheme
    /\ themeValue = Null
    /\ paletteValue = Null
    /\ document = NoDocument
    /\ newDocument = NoDocument
    /\ swaps = 0
    /\ lastOp = [op |-> "none", arg |-> Null]
    /\ pre = Null
    /\ calls = NoCalls
    /\ ret = [fn |-> "none", val |-> Null]

PREVIEW_LINES == 14

\* bounds: lines beyond the preview, code blocks per post, passes, clicks
\* per toggle, characters of a text given to getLineCount directly
MaxExtraLines == 2
MaxBlocks == 2
MaxPasses == 2
MaxClicks == 3
MaxTextLen == 5

NL == "\n"

\* a text is the sequence of its characters
Chars == {"x", NL}

\* text.replace(/\n$/, "")
stripTrailingNewline(t) ==
    IF Len(t) > 0 /\ t[Len(t)] = NL THEN SubSeq(t, 1, Len(t) - 1) ELSE t

\* text.split("\n")
RECURSIVE split(_)
split(t) ==
    IF \A i \in 1..Len(t) : t[i] # NL THEN <<t>>
    ELSE LET i == CHOOSE j \in 1..Len(t) :
                     t[j] = NL /\ \A k \in 1..(j - 1) : t[k] # NL
         IN  <<SubSeq(t, 1, i - 1)>> \o split(SubSeq(t, i + 1, Len(t)))

\* variant: the trailing newline is not removed
getLineCount_noStrip(t) == Len(split(t))

getLineCount(t) == Len(split(stripTrailingNewline(t)))

\* a text of n lines "x", with or without a newline after the last one
RECURSIVE linesOfCode(_, _)
linesOfCode(n, trailing) ==
    IF n = 0 THEN <<>>
    ELSE IF n = 1 THEN (IF trailing THEN <<"x", NL>> ELSE <<"x">>)
    ELSE <<"x", NL>> \o linesOfCode(n - 1, trailing)

\* the texts of the code blocks of a post: empty, one line, and around the
\* preview threshold
CodeTexts ==
    {<<>>} \cup
    { linesOfCode(n, tr) :
        n \in {1} \cup ((PREVIEW_LINES - 1)..(PREVIEW_LINES + MaxExtraLines)),
        tr \in BOOLEAN }

\* a container as parsed: pre.closest(".highlight") || pre
container(noCollapse) ==
    [ noCollapse |-> noCollapse,    \* classList.contains("no-collapse")
      codeEnhanced |-> Null,        \* dataset.codeEnhanced
      collapsible |-> FALSE,        \* class code-collapsible
      previewLines |-> Null,        \* style property --code-preview-lines
      expanded |-> FALSE,           \* class is-expanded
      after |-> <<>> ]              \* the toggle buttons that follow it

\* `Show ${lines - PREVIEW_LINES} more lines`
showMoreLabel(lines) ==
    "Show " \o ToString(lines - PREVIEW_LINES) \o " more lines"

\* the button created for a block of that many lines
newToggle(lines) ==
    [ type |-> "button", className |-> "code-toggle",
      label |-> showMoreLabel(lines), ariaExpanded |-> "false",
      lines |-> lines ]

\* variant: the marker is never recognised
alreadyEnhanced_never(c) == FALSE

\* container.dataset.codeEnhanced === "true"
alreadyEnhanced(c) == c.codeEnhanced = "true"

\* variant: the opt-out class is ignored
optedOut_never(c) == FALSE

\* container.classList.contains("no-collapse")
optedOut(c) == c.noCollapse

\* variant: a block of exactly PREVIEW_LINES lines is collapsed
fitsPreview_strict(lines) == lines < PREVIEW_LINES

\* lines <= PREVIEW_LINES
fitsPreview(lines) == lines <= PREVIEW_LINES

\* enhanceCodeBlock(codeblock) on the containers cs
enhanceCodeBlock(cs, block) ==
    LET k == block.container
        c == cs[k]
    IN  IF alreadyEnhanced(c) THEN cs
        ELSE IF optedOut(c) THEN cs
        ELSE LET marked == [c EXCEPT !.codeEnhanced = "true"]
                 lines == getLineCount(block.text)
             IN  IF fitsPreview(lines) THEN [cs EXCEPT ![k] = marked]
                 ELSE [cs EXCEPT ![k] =
                         [marked EXCEPT
                            !.collapsible = TRUE,
                            !.previewLines = ToString(PREVIEW_LINES),
                            !.after = <<newToggle(lines)>> \o marked.after]]

\* document.querySelectorAll(".post-content pre > code").forEach(...)
RECURSIVE enhanceAll(_, _)
enhanceAll(cs, bs) ==
    IF bs = <<>> THEN cs
    ELSE enhanceAll(enhanceCodeBlock(cs, Head(bs)), Tail(bs))

\* variant: classList.add, which never removes the class
toggleClass_add(has) == TRUE

\* container.classList.toggle("is-expanded"): the new presence of the class
toggleClass(has) == ~has

\* the click listener of toggle j after container k
clickToggle(cs, k, j) ==
    LET c == cs[k]
        tg == c.after[j]
        expanded == toggleClass(c.expanded)
    IN  [cs EXCEPT ![k] =
           [c EXCEPT
              !.expanded = expanded,
              !.after[j] =
                 [tg EXCEPT
                    !.label = IF expanded THEN "Show less"
                              ELSE showMoreLabel(tg.lines),
                    !.ariaExpanded = IF expanded THEN "true" ELSE "false"]]]

\* the container of block i, when share[j] says that block j lies in the
\* same container as block j - 1: containers are numbered in document order
containerOf(share, i) == 1 + Cardinality({ j \in 2..i : ~share[j] })

\* a post as parsed: its code blocks, each in its own container or sharing
\* the container of the previous one; any container may opt out
post(texts, share, optOut) ==
    [ blocks |-> [ i \in 1..Len(texts) |->
                     [ text |-> texts[i],
                       container |-> containerOf(share, i) ] ],
      containers |-> [ k \in 1..containerOf(share, Len(texts)) |->
                         container(optOut[k]) ] ]

InitWidget ==
    /\ NoThemeScript
    /\ NoProfile
    /\ \E n \in 1..MaxBlocks :
         \E texts \in [1..n -> CodeTexts], share \in [2..n -> BOOLEAN] :
           \E optOut \in [1..containerOf(share, n) -> BOOLEAN] :
              /\ blocks = post(texts, share, optOut).blocks
              /\ containers = post(texts, share, optOut).containers
              /\ clicks = [k \in 1..containerOf(share, n) |-> 0]
    /\ passes = 0
    /\ widgetOp = "none"
    /\ text = <<>>

themeVars == <<phase, initialColorScheme, localStorage, osDark, windowTheme,
               themeValue, paletteValue, document, newDocument, swaps,
               lastOp, pre, calls>>

\* the script of the post runs (again)
EnhancePass ==
    /\ blocks # <<>>
    /\ passes < MaxPasses
    /\ containers' = enhanceAll(containers, blocks)
    /\ passes' = passes + 1
    /\ widgetOp' = "pass"
    /\ UNCHANGED <<themeVars, ret, profileVars, blocks, clicks, text>>

\* the reader clicks toggle j after container k
ClickToggle(k, j) ==
    /\ k \in 1..Len(containers)
    /\ j \in 1..Len(containers[k].after)
    /\ clicks[k] < MaxClicks
    /\ containers' = clickToggle(containers, k, j)
    /\ clicks' = [clicks EXCEPT ![k] = @ + 1]
    /\ widgetOp' = "click"
    /\ UNCHANGED <<themeVars, ret, profileVars, blocks, passes, text>>

NextWidget ==
    \/ EnhancePass
    \/ \E k \in 1..MaxBlocks, j \in 1..MaxPasses : ClickToggle(k, j)

SpecWidget == InitWidget /\ [][NextWidget]_vars

\* getLineCount as a function: called on every text of up to MaxTextLen
\* characters, and on that text with one more newline appended
Texts == UNION { [1..n -> Chars] : n \in 0..MaxTextLen }

InitLines ==
    /\ NoThemeScript
    /\ NoProfile
    /\ blocks = <<>>
    /\ containers = <<>>
    /\ passes = 0
    /\ clicks = <<>>
    /\ widgetOp = "none"
    /\ text \in Texts

CallGetLineCount ==
    /\ ret.fn = "none"
    /\ ret' = [fn |-> "getLineCount", val |-> getLineCount(text),
               appended |-> getLineCount(text \o <<NL>>)]
    /\ UNCHANGED <<themeVars, widgetVars, profileVars>>

NextLines == CallGetLineCount

SpecLines == InitLines /\ [][NextLines]_vars

-----------------------------------------------------------------------------
(* Legacy profile renderer (src/unnamed/part_000)                          *)

\* bounds: items per collection of the profile document, largest sn
MaxItems == 3
MaxSn == 3

\* row sizes of loadSkills and loadLinks
SkillsPerRow == 6
LinksPerRow == 5

snValues(xs) == { xs[i].sn : i \in 1..Len(xs) }

\* the sequences that list the members of S once each
RECURSIVE permSeqs(_)
permSeqs(S) ==
    IF S = {} THEN {<<>>}
    ELSE UNION { { <<x>> \o p : p \in permSeqs(S \ {x}) } : x \in S }

\* the index orders that list the items of xs by ascending sn, the sn values
\* vals still to come, items of equal sn in any order
RECURSIVE ordersFrom(_, _)
ordersFrom(xs, vals) ==
    IF vals = {} THEN {<<>>}
    ELSE LET v == CHOOSE w \in vals : \A u \in vals : w <= u
             group == { i \in 1..Len(xs) : xs[i].sn = v }
         IN  { p \o rest : p \in permSeqs(group),
                           rest \in ordersFrom(xs, vals \ {v}) }

\* the orders in which array.sort(function(a,b){ return a.sn-b.sn; }) may
\* leave the items of xs: ascending by sn; the order of items whose sn is
\* equal is up to the engine (stable only since ES2019).  The order depends
\* on the sn values alone, so one engine orders two arrays with the same
\* sn values alike.
sortOrders(xs) == ordersFrom(xs, snValues(xs))

\* variant: the array is left in declaration order
sortBySn_unsorted(xs, ord) == xs

\* the array after the sort, which reorders it in place, when the engine
\* settles on the order ord
sortBySn(xs, ord) == [ i \in 1..Len(xs) |-> xs[ord[i]] ]

\* variant: every item goes into a single row
rowsOf_oneRow(xs, n) == IF Len(xs) = 0 THEN <<>> ELSE <<xs>>

\* the rows of a while / for pair that fills rows of n items
RECURSIVE rowsOf(_, _)
rowsOf(xs, n) ==
    IF Len(xs) = 0 THEN <<>>
    ELSE LET m == IF Len(xs) < n THEN Len(xs) ELSE n
         IN  <<SubSeq(xs, 1, m)>> \o rowsOf(SubSeq(xs, m + 1, Len(xs)), n)

names(xs) == [ i \in 1..Len(xs) |-> xs[i].name ]

\* loadSkills: rows of 6, in declaration order
loadSkills(skills) == rowsOf(names(skills), SkillsPerRow)

\* variant: the anchor is emitted for every link
linkAnchor_always(link) == link

\* if(projects[i].link!="#") tags+='<a href="'+projects[i].link+'" ...>':
\* the href of the anchor a project gets, Null for none
linkAnchor(link) == IF link # "#" THEN link ELSE Null

\* loadProjects: sorted; the link anchor is left out for link "#"
loadProjects(projects, ord) ==
    LET ps == sortBySn(projects, ord)
    IN  [ i \in 1..Len(ps) |->
            [ name |-> ps[i].name, anchor |-> linkAnchor(ps[i].link) ] ]

\* loadWorks: sorted, then the entries of type "work"
loadWorks(experince, ord) ==
    names(SelectSeq(sortBySn(experince, ord), LAMBDA e : e.type = "work"))

\* loadEducations: declaration order; the courses of each entry sorted
loadEducations(educations, ord) ==
    [ i \in 1..Len(educations) |->
        [ name |-> educations[i].name,
          courses |-> names(sortBySn(educations[i].courses, ord)) ] ]

\* loadLinks: sorted, rows of 5
loadLinks(profileLinks, ord) ==
    rowsOf(names(sortBySn(profileLinks, ord)), LinksPerRow)

\* loadLikes: sorted
loadLikes(likes, ord) == names(sortBySn(likes, ord))

\* the arrays of the document after the render functions have sorted them
\* in place
sortedInPlace(doc, ord) ==
    [ doc EXCEPT
        !.likes = sortBySn(@, ord),
        !.profileLinks = sortBySn(@, ord),
        !.projects = sortBySn(@, ord),
        !.experince = sortBySn(@, ord),
        !.educations = [ i \in 1..Len(@) |->
                           [ @[i] EXCEPT !.courses = sortBySn(@, ord) ] ] ]

\* the elements the page fills, before the callback
BlankPage ==
    [ name |-> Null, image |-> Null, contact |-> Null, summary |-> Null,
      tabs |-> Null, likes |-> Null, links |-> Null, skills |-> Null,
      projects |-> Null, experience |-> Null, education |-> Null,
      content |-> "none" ]

\* what the callback renders from a document
renderProfile(doc, ord) ==
    [ name |-> <<doc.personalInfo.fname, doc.personalInfo.lname>>,
      image |-> doc.personalInfo.myimg,
      contact |-> <<doc.personalInfo.mob, doc.personalInfo.email>>,
      summary |-> doc.summary,
      tabs |-> <<"skills", "projects", "experience", "education">>,
      likes |-> loadLikes(doc.likes, ord),
      links |-> loadLinks(doc.profileLinks, ord),
      skills |-> loadSkills(doc.skills),
      projects |-> loadProjects(doc.projects, ord),
      experience |-> loadWorks(doc.experince, ord),
      education |-> loadEducations(doc.educations, ord),
      content |-> "block" ]

\* a profile document whose collections all declare their items with the
\* sn values sns, in that order (so every sort of one run settles on the
\* same order); item i is named i, and mark[i] makes
\* project i link to "#" and experience entry i something else than work
profileDocument(sns, mark) ==
    LET items == [ i \in 1..Len(sns) |-> [ sn |-> sns[i], name |-> i ] ]
    IN  [ personalInfo |-> [ fname |-> "F", lname |-> "L", myimg |-> "me.png",
                             mob |-> "0", email |-> "e" ],
          summary |-> "summary",
          skills |-> items,
          projects |-> [ i \in 1..Len(sns) |->
                           [ sn |-> sns[i], name |-> i,
                             link |-> IF mark[i] THEN "#" ELSE "url" ] ],
          experince |-> [ i \in 1..Len(sns) |->
                            [ sn |-> sns[i], name |-> i,
                              type |-> IF mark[i] THEN "study" ELSE "work" ] ],
          educations |-> [ i \in 1..Len(sns) |->
                             [ sn |-> sns[i], name |-> i, courses |-> items ] ],
          profileLinks |-> items,
          likes |-> items ]

\* the script has run: var profile is undefined and $.get is in flight
InitProfile ==
    /\ NoThemeScript
    /\ NoWidget
    /\ \E n \in 0..MaxItems :
         \E sns \in [1..n -> 1..MaxSn], mark \in [1..n -> BOOLEAN] :
            fetched = profileDocument(sns, mark)
    /\ profile = Null
    /\ html = BlankPage
    /\ location = "/"
    /\ request = "pending"

\* the textStatus values a success callback can be handed
CallbackStatuses == {"success", "notmodified", "nocontent"}

\* the arguments jQuery calls the success callback with: <<hasData, status>>,
\* hasData telling whether data is the parsed document.  A 204 or 304 answer
\* ("nocontent", "notmodified") comes with data undefined; a "success" answer
\* need not hold a document (an empty or null body).
CallbackArgs ==
    { a \in BOOLEAN \X CallbackStatuses : a[1] => a[2] = "success" }

\* variant: the tabs, which need no data, are written before the profile is
\* read
pageAfterCallback_tabsFirst(hasData, before, doc, ord) ==
    IF hasData THEN renderProfile(doc, ord)
    ELSE [before EXCEPT
            !.tabs = <<"skills", "projects", "experience", "education">>]

\* the page when the callback ends: without a document the first statement
\* after profile = data, var pInfo = profile.personalInfo, throws a
\* TypeError, before anything is written
pageAfterCallback(hasData, before, doc, ord) ==
    IF hasData THEN renderProfile(doc, ord) ELSE before

\* $.get("js/profile.json", function(data, status){...}): the callback.
\* There is no return after the assignment of window.location.href.
GetCallback(hasData, status) ==
    /\ request = "pending"
    /\ location' = IF status # "success" THEN "/error.html" ELSE location
    /\ IF hasData
       THEN /\ \E ord \in sortOrders(fetched.likes) :
                  /\ profile' = sortedInPlace(fetched, ord)
                  /\ html' = pageAfterCallback(hasData, html, fetched, ord)
            /\ request' = "done"
       ELSE /\ profile' = Null
            /\ html' = pageAfterCallback(hasData, html, fetched, <<>>)
            /\ request' = "threw"
    /\ ret' = [fn |-> "callback", val |-> status]
    /\ UNCHANGED <<themeVars, widgetVars, fetched>>

\* the request fails: jQuery does not call the success callback
RequestFails ==
    /\ request = "pending"
    /\ request' = "failed"
    /\ UNCHANGED <<themeVars, ret, widgetVars, fetched, profile, html,
                   location>>

NextProfile ==
    \/ \E a \in CallbackArgs : GetCallback(a[1], a[2])
    \/ RequestFails

SpecProfile == InitProfile /\ [][NextProfile]_vars

-----------------------------------------------------------------------------
(* The row loops of loadLinks and loadSkills on longer arrays *)

\* bound: items of the arrays handed to loadLinks and loadSkills
MaxRowItems == 13

RowOrders == {"ascending", "descending", "paired"}

\* an array of n items, item i named i, with its sn values in the given
\* order; "paired" gives two neighbours the same sn
rowItems(n, order) ==
    [ i \in 1..n |->
        [ sn |-> IF order = "ascending" THEN i
                 ELSE IF order = "descending" THEN n + 1 - i
                 ELSE (i + 1) \div 2,
          name |-> i ] ]

\* the two arrays of a profile document that are rendered in rows
rowsDocument(items) == [ profileLinks |-> items, skills |-> items ]

\* profile = data has run
InitRows ==
    /\ NoThemeScript
    /\ NoWidget
    /\ \E n \in 0..MaxRowItems, order \in RowOrders :
          fetched = rowsDocument(rowItems(n, order))
    /\ profile = fetched
    /\ html = BlankPage
    /\ location = Null
    /\ request = "none"

\* loadLinks(profile.profileLinks): sorts the array in place and renders it
CallLoadLinks ==
    /\ ret.fn = "none"
    /\ \E ord \in sortOrders(profile.profileLinks) :
          /\ profile' = [profile EXCEPT !.profileLinks = sortBySn(@, ord)]
          /\ html' = [html EXCEPT
                        !.links = loadLinks(profile.profileLinks, ord)]
    /\ ret' = [fn |-> "loadLinks", val |-> Len(profile.profileLinks)]
    /\ UNCHANGED <<themeVars, widgetVars, fetched, location, request>>

\* loadSkills(profile.skills), the next call of the callback
CallLoadSkills ==
    /\ ret.fn = "loadLinks"
    /\ html' = [html EXCEPT !.skills = loadSkills(profile.skills)]
    /\ ret' = [fn |-> "loadSkills", val |-> Len(profile.skills)]
    /\ UNCHANGED <<themeVars, widgetVars, fetched, profile, location,
                   request>>

NextRows == CallLoadLinks \/ CallLoadSkills

SpecRows == InitRows /\ [][NextRows]_vars

-----------------------------------------------------------------------------
(* Properties *)

Persisted == /\ localStorage[THEME] = themeValue
             /\ localStorage[PALETTE] = paletteValue

Reflected == /\ document.dataTheme = themeValue
             /\ document.dataPalette = paletteValue

\* C1: whenever setPreference() has run, the stored 'theme' / 'palette' keys
\* and the root's data-theme / data-palette attributes equal the in-memory
\* theme and palette, and a second setPreference() call right after the first
\* leaves local storage and the document exactly as they were.
C1_SetPreferencePersistsAndReflects ==
    [][ lastOp'.op = "setPreference" =>
          /\ Persisted'
          /\ Reflected'
          /\ themeValue' = themeValue /\ paletteValue' = paletteValue
          /\ lastOp.op = "setPreference" =>
                /\ localStorage' = localStorage
                /\ document' = document ]_vars

C1_Witness ==
    /\ lastOp.op = "setPreference"
    /\ themeValue \in {LIGHT, DARK}
    /\ localStorage[THEME] = themeValue
    /\ localStorage[PALETTE] = paletteValue
    /\ document.dataTheme = themeValue
    /\ document.dataPalette = paletteValue

\* C2: a click on the theme toggle turns light into dark and dark into light,
\* and afterwards the stored 'theme' key and data-theme equal the new value;
\* a second click right after the first brings memory, storage and attribute
\* back to the light/dark theme the first click started from.
C2_ClickFlipsTheme ==
    [][ lastOp'.op = "click" =>
          /\ themeValue = LIGHT => themeValue' = DARK
          /\ themeValue = DARK => themeValue' = LIGHT
          /\ localStorage'[THEME] = themeValue'
          /\ document'.dataTheme = themeValue'
          /\ (lastOp.op = "click" /\ pre \in {LIGHT, DARK}) =>
                /\ themeValue' = pre
                /\ localStorage'[THEME] = pre
                /\ document'.dataTheme = pre ]_vars

C2_Witness ==
    /\ lastOp = [op |-> "click", arg |-> "again"]
    /\ pre = DARK
    /\ themeValue = LIGHT
    /\ localStorage[THEME] = LIGHT
    /\ document.dataTheme = LIGHT

\* C3: after the user selects palette p on #palette-select, the in-memory
\* palette, the stored 'palette' key and data-palette all equal p.
C3_SelectAdoptsPalette ==
    lastOp.op = "select" =>
        /\ paletteValue = lastOp.arg
        /\ localStorage[PALETTE] = lastOp.arg
        /\ document.dataPalette = lastOp.arg

C3_Witness ==
    /\ lastOp = [op |-> "select", arg |-> "ocean"]
    /\ paletteValue = "ocean"
    /\ localStorage[PALETTE] = "ocean"
    /\ document.dataPalette = "ocean"
    /\ windowTheme.paletteValue # "ocean"

\* C4: after a prefers-color-scheme change event, the in-memory theme, the
\* stored 'theme' key and data-theme all equal the new OS scheme (dark if the
\* query matches, light otherwise), whatever the theme was before.
C4_OsChangeAdoptsScheme ==
    [][ lastOp'.op = "oschange" =>
          /\ osDark' => themeValue' = DARK
          /\ ~osDark' => themeValue' = LIGHT
          /\ localStorage'[THEME] = themeValue'
          /\ document'.dataTheme = themeValue' ]_vars

C4_Witness ==
    /\ lastOp.op = "oschange"
    /\ osDark
    /\ themeValue = DARK
    /\ localStorage[THEME] = DARK
    /\ document.dataTheme = DARK
    /\ windowTheme.owner = "module"
    /\ windowTheme.themeValue = "sepia"

\* C5: getPreferTheme() returns the stored 'theme' value if one is present;
\* otherwise the site default if it is non-empty; otherwise the OS scheme
\* (dark if the query matches, else light).
C5_ThemeResolutionOrder ==
    ret.fn = "getPreferTheme" =>
        LET stored == localStorage[THEME]
            present == stored # Null /\ stored # ""
        IN  /\ present => ret.val = stored
            /\ (~present /\ initialColorScheme # "") =>
                  ret.val = initialColorScheme
            /\ (~present /\ initialColorScheme = "" /\ osDark) =>
                  ret.val = DARK
            /\ (~present /\ initialColorScheme = "" /\ ~osDark) =>
                  ret.val = LIGHT

C5_Witness ==
    /\ ret = [fn |-> "getPreferTheme", val |-> LIGHT]
    /\ localStorage[THEME] = Null
    /\ initialColorScheme = LIGHT
    /\ osDark

\* C6: the theme is always light or dark: getPreferTheme() returns light or
\* dark for every content of local storage, and once the module has loaded
\* the in-memory theme and data-theme are light or dark.
C6_ThemeIsLightOrDark ==
    /\ ret.fn = "getPreferTheme" => ret.val \in {LIGHT, DARK}
    /\ phase # "boot" => /\ themeValue \in {LIGHT, DARK}
                         /\ document.dataTheme \in {LIGHT, DARK}

\* C7: a missing, empty or malformed stored 'theme' falls through to the
\* site default and then the OS scheme; a missing or empty stored 'palette'
\* falls through to the injected palette and then the default.
C7_MalformedStorageIsAbsent ==
    /\ (ret.fn = "getPreferTheme" /\ localStorage[THEME] \notin {LIGHT, DARK})
          => ret.val = IF initialColorScheme # "" THEN initialColorScheme
                       ELSE IF osDark THEN DARK ELSE LIGHT
    /\ (ret.fn = "getPreferPalette" /\ localStorage[PALETTE] \in {Null, ""})
          => ret.val = IF windowTheme.owner # "none"
                          /\ windowTheme.paletteValue \notin {Null, ""}
                       THEN windowTheme.paletteValue
                       ELSE DEFAULT_PALETTE

\* C8: getPreferPalette() returns the stored 'palette' if present; otherwise
\* the paletteValue of a pre-existing global theme object if present;
\* otherwise 'fjord'.  The result is never empty or undefined.
C8_PaletteResolutionOrder ==
    ret.fn = "getPreferPalette" =>
        LET stored == localStorage[PALETTE]
            present == stored # Null /\ stored # ""
            injected == windowTheme.owner # "none"
                        /\ windowTheme.paletteValue # Null
                        /\ windowTheme.paletteValue # ""
        IN  /\ present => ret.val = stored
            /\ (~present /\ injected) => ret.val = windowTheme.paletteValue
            /\ (~present /\ ~injected) => ret.val = "fjord"
            /\ ret.val # "" /\ ret.val # Null

C8_Witness ==
    /\ ret = [fn |-> "getPreferPalette", val |-> "ocean"]
    /\ localStorage[PALETTE] = ""
    /\ windowTheme.owner = "inline"
    /\ windowTheme.paletteValue = "ocean"

\* C9: when the module loads and an inline bootstrap has left a global theme
\* object with values tv / pv, the module adopts tv / pv in memory, keeps
\* that object, and data-theme = tv, data-palette = pv after the load; when
\* there is no global object, it resolves the values from storage, site
\* default and OS, and creates the object.
C9_LoadAdoptsInlineState ==
    [][ lastOp'.op = "load" =>
          /\ windowTheme.owner = "inline" =>
                /\ themeValue' = windowTheme.themeValue
                /\ paletteValue' = windowTheme.paletteValue
                /\ windowTheme'.owner = "inline"
                /\ windowTheme'.themeValue = windowTheme.themeValue
                /\ windowTheme'.paletteValue = windowTheme.paletteValue
                /\ document'.dataTheme = windowTheme.themeValue
                /\ document'.dataPalette = windowTheme.paletteValue
          /\ windowTheme.owner = "none" =>
                /\ windowTheme'.owner = "module"
                /\ themeValue' =
                      ( IF localStorage[THEME] \notin {Null, ""}
                        THEN localStorage[THEME]
                        ELSE IF initialColorScheme # ""
                        THEN initialColorScheme
                        ELSE IF osDark THEN DARK ELSE LIGHT )
                /\ paletteValue' =
                      ( IF localStorage[PALETTE] \notin {Null, ""}
                        THEN localStorage[PALETTE] ELSE "fjord" ) ]_vars

C9_Witness ==
    /\ lastOp.op = "load"
    /\ windowTheme.owner = "inline"
    /\ themeValue = DARK
    /\ paletteValue = "ocean"
    /\ localStorage[THEME] = LIGHT
    /\ localStorage[PALETTE] = Null
    /\ ~osDark
    /\ document.dataTheme = DARK
    /\ document.dataPalette = "ocean"

\* C10: after the load and any number of page swaps, every control has at
\* most one handler bound, a click on the toggle runs its handler and
\* setPreference exactly once and flips the theme exactly once, and a change
\* of the palette select runs its handler exactly once.
C10_RebindingIsIdempotent ==
    /\ document.onclick <= 1
    /\ document.onchange <= 1
    /\ lastOp.op = "click" =>
          /\ calls.handler = 1
          /\ calls.setPreference = 1
          /\ themeValue = (IF pre = LIGHT THEN DARK ELSE LIGHT)
    /\ lastOp.op = "select" =>
          /\ calls.handler = 1
          /\ calls.setPreference = 1

C10_Witness ==
    /\ swaps = MaxSwaps
    /\ lastOp.op = "click"
    /\ calls.handler = 1
    /\ pre = LIGHT
    /\ themeValue = DARK

\* C11: on astro:before-swap, if this document's theme-color content c is
\* non-empty and the incoming document has a theme-color meta tag, the
\* incoming tag's content becomes c; otherwise the incoming document is left
\* as it was parsed.  Theme, palette, local storage and the current document
\* are not changed.
C11_BeforeSwapCarriesThemeColor ==
    [][ lastOp'.op = "beforeSwap" =>
          LET c == document.metaContent
              carried == c # Null /\ c # "" /\ newDocument'.meta
          IN  /\ carried =>
                    /\ newDocument'.metaContent = c
                    /\ [newDocument' EXCEPT !.metaContent = ""] \in Pages
              /\ ~carried => newDocument' \in Pages
              /\ themeValue' = themeValue
              /\ paletteValue' = paletteValue
              /\ localStorage' = localStorage
              /\ document' = document ]_vars

C11_Witness ==
    /\ phase = "swapping"
    /\ lastOp.op = "beforeSwap"
    /\ Truthy(document.metaContent)
    /\ document.metaContent[2] = DARK
    /\ document.metaContent[3] = "ocean"
    /\ newDocument.meta
    /\ document.metaContent = newDocument.metaContent
    /\ ~newDocument.body

\* the handlers that run reflectPreference
ReflectOps == {"load", "click", "select", "oschange", "afterSwap",
               "setPreference", "reflectPreference"}

\* C12: whenever reflectPreference has run, data-theme and data-palette are
\* set; the aria-label, the select value and the theme-color are set exactly
\* when the button, the select, and both the body and the meta tag exist;
\* without a body the theme-color is left as it was; the binders bind a
\* handler to each control that exists and do nothing for one that does not.
C12_AbsentElementsAreSkipped ==
    [][ lastOp'.op \in ReflectOps =>
          LET before == IF lastOp'.op = "afterSwap" THEN newDocument
                        ELSE document
              after == document'
          IN  /\ after.dataTheme = themeValue'
              /\ after.dataPalette = paletteValue'
              /\ after.btn => after.ariaLabel = themeValue'
              /\ ~after.btn => after.ariaLabel = Null /\ after.onclick = 0
              /\ after.select =>
                    after.selectValue = (IF paletteValue' \in PaletteOptions
                                         THEN paletteValue' ELSE "")
              /\ ~after.select =>
                    after.selectValue = Null /\ after.onchange = 0
              /\ (after.body /\ after.meta) =>
                    after.metaContent = <<"bg", themeValue', paletteValue'>>
              /\ ~after.body => after.metaContent = before.metaContent
              /\ ~after.meta => after.metaContent = Null
              /\ lastOp'.op \in {"load", "afterSwap"} =>
                    /\ after.btn => after.onclick = 1
                    /\ after.select => after.onchange = 1
              /\ after.body = before.body /\ after.btn = before.btn
              /\ after.select = before.select /\ after.meta = before.meta
      ]_vars

C12_Witness ==
    /\ lastOp.op = "setPreference"
    /\ ~document.body /\ ~document.btn /\ ~document.select
    /\ document.meta
    /\ document.metaContent = ""
    /\ document.dataTheme = DARK
    /\ document.dataPalette = "ocean"
    /\ document.ariaLabel = Null

\* C13 as stated: a toggle click or an OS change leaves the in-memory palette
\* and data-palette unchanged; a palette selection leaves the in-memory theme
\* and data-theme unchanged; reflectPreference, setPreference and the swap
\* handlers change neither in-memory value, and a load over an inline
\* bootstrap keeps the bootstrap's values.
C13_AxesAreIndependent ==
    [][ /\ lastOp'.op \in {"click", "oschange"} =>
              /\ paletteValue' = paletteValue
              /\ document'.dataPalette = document.dataPalette
        /\ lastOp'.op = "select" =>
              /\ themeValue' = themeValue
              /\ document'.dataTheme = document.dataTheme
        /\ lastOp'.op \in {"reflectPreference", "setPreference",
                           "afterSwap", "beforeSwap"} =>
              /\ themeValue' = themeValue
              /\ paletteValue' = paletteValue
        /\ (lastOp'.op = "load" /\ windowTheme.owner = "inline") =>
              /\ themeValue' = windowTheme.themeValue
              /\ paletteValue' = windowTheme.paletteValue ]_vars

\* C13 as amended: a toggle click or an OS change leaves the in-memory
\* palette unchanged and sets data-palette to it, so data-palette is unchanged
\* whenever it already showed the in-memory palette; a palette selection
\* leaves the in-memory theme unchanged and sets data-theme to it, likewise;
\* reflectPreference, setPreference and the swap handlers change neither
\* in-memory value, and a load over an inline bootstrap keeps its values.
C13_AxesAreIndependentOnceReflected ==
    [][ /\ lastOp'.op \in {"click", "oschange"} =>
              /\ paletteValue' = paletteValue
              /\ document'.dataPalette = paletteValue
              /\ document.dataPalette = paletteValue =>
                    document'.dataPalette = document.dataPalette
        /\ lastOp'.op = "select" =>
              /\ themeValue' = themeValue
              /\ document'.dataTheme = themeValue
              /\ document.dataTheme = themeValue =>
                    document'.dataTheme = document.dataTheme
        /\ lastOp'.op \in {"reflectPreference", "setPreference",
                           "afterSwap", "beforeSwap"} =>
              /\ themeValue' = themeValue
              /\ paletteValue' = paletteValue
        /\ (lastOp'.op = "load" /\ windowTheme.owner = "inline") =>
              /\ themeValue' = windowTheme.themeValue
              /\ paletteValue' = windowTheme.paletteValue ]_vars

C13_Witness ==
    /\ lastOp.op = "click"
    /\ windowTheme.owner = "module"
    /\ windowTheme.paletteValue = "fjord"
    /\ paletteValue = ""
    /\ document.dataPalette = ""
    /\ themeValue = DARK

\* C14: when a toggle click, a palette selection or an OS change has left
\* theme t in {light, dark} and a non-empty palette p, and the site is then
\* opened afresh without an inline bootstrap, the module loads with theme t
\* and palette p, whatever the OS scheme is at that load.
C14_PreferenceOutlivesSession ==
    ( /\ lastOp.op = "load"
      /\ lastOp.arg # Null
      /\ windowTheme.owner = "module" ) =>
        ( ( lastOp.arg[1] \in {LIGHT, DARK} /\ lastOp.arg[2] # "" ) =>
             /\ themeValue = lastOp.arg[1]
             /\ paletteValue = lastOp.arg[2] )

C14_Witness ==
    /\ lastOp.op = "load"
    /\ lastOp.arg # Null
    /\ lastOp.arg[1] = DARK
    /\ lastOp.arg[2] = "ocean"
    /\ windowTheme.owner = "module"
    /\ ~osDark
    /\ themeValue = DARK
    /\ paletteValue = "ocean"

\* the number of lines of a text, counted from its newline characters: one
\* more than their number, a newline at the very end not counting
LinesOf(t) ==
    LET m == Cardinality({ i \in 1..Len(t) : t[i] = NL })
    IN  IF Len(t) > 0 /\ t[Len(t)] = NL THEN m ELSE m + 1

\* the block through which container k is enhanced: the first one inside it
FirstBlockIn(k) ==
    blocks[CHOOSE i \in 1..Len(blocks) :
              /\ blocks[i].container = k
              /\ \A j \in 1..(i - 1) : blocks[j].container # k]

\* C15: after the enhancement pass, a container that is not opted out and
\* whose code block has n lines has, if n <= 14, no collapsible class, no
\* preview property and no toggle; if n > 14, the collapsible class, the
\* preview property "14" and exactly one toggle button right after it, which
\* until it is clicked reads 'Show (n-14) more lines' with
\* aria-expanded="false"; 15 lines give 'Show 1 more lines'.
C15_CollapsibleAboveThreshold ==
    passes >= 1 =>
      \A k \in 1..Len(containers) :
        LET c == containers[k]
            n == LinesOf(FirstBlockIn(k).text)
        IN  ~c.noCollapse =>
              /\ n <= 14 =>
                    /\ ~c.collapsible
                    /\ c.previewLines = Null
                    /\ c.after = <<>>
              /\ n > 14 =>
                    /\ c.collapsible
                    /\ c.previewLines = "14"
                    /\ Len(c.after) = 1
                    /\ c.after[1].type = "button"
                    /\ clicks[k] = 0 =>
                          /\ c.after[1].label =
                                "Show " \o ToString(n - 14) \o " more lines"
                          /\ c.after[1].ariaExpanded = "false"
                          /\ n = 15 => c.after[1].label = "Show 1 more lines"

C15_Witness ==
    /\ passes = 1
    /\ Len(containers) = 2
    /\ LinesOf(blocks[1].text) = 15
    /\ containers[1].collapsible
    /\ Len(containers[1].after) = 1
    /\ containers[1].after[1].label = "Show 1 more lines"
    /\ LinesOf(blocks[2].text) = 14
    /\ blocks[2].container = 2
    /\ containers[2].codeEnhanced = "true"
    /\ ~containers[2].collapsible
    /\ containers[2].after = <<>>

\* C16: a container with a toggle has the expanded class exactly when its
\* toggle has been clicked an odd number of times; when it has the class the
\* label is 'Show less' and aria-expanded is "true", and otherwise the label
\* is the 'Show N more lines' it was created with and aria-expanded is "false".
C16_ToggleIsReversible ==
    \A k \in 1..Len(containers) :
      LET c == containers[k]
      IN  c.after # <<>> =>
            LET tg == c.after[1]
                N == LinesOf(FirstBlockIn(k).text) - 14
            IN  /\ c.expanded <=> (clicks[k] % 2 = 1)
                /\ c.expanded =>
                      tg.label = "Show less" /\ tg.ariaExpanded = "true"
                /\ ~c.expanded =>
                      /\ tg.label = "Show " \o ToString(N) \o " more lines"
                      /\ tg.ariaExpanded = "false"

C16_Witness ==
    /\ widgetOp = "click"
    /\ clicks[1] = 2
    /\ ~containers[1].expanded
    /\ containers[1].after[1].label = "Show 2 more lines"
    /\ containers[1].after[1].ariaExpanded = "false"

\* C17: a pass leaves every container that was already enhanced exactly as
\* it was (classes, marker, toggle, label, aria-expanded), and after any
\* number of passes no container is followed by more than one toggle.
C17_PassIsIdempotent ==
    [][ widgetOp' = "pass" =>
          \A k \in 1..Len(containers) :
            /\ containers[k].codeEnhanced = "true" =>
                  containers'[k] = containers[k]
            /\ Len(containers'[k].after) <= 1 ]_vars

C17_Witness ==
    /\ widgetOp = "pass"
    /\ passes = 2
    /\ clicks[1] = 1
    /\ containers[1].expanded
    /\ Len(containers[1].after) = 1
    /\ containers[1].after[1].label = "Show less"

\* C18: a container with the no-collapse class is never modified: it gets no
\* collapsible class, no preview property, no toggle and no enhanced marker,
\* whatever the line count of its block and however many passes have run.
C18_OptOutIsUntouched ==
    \A k \in 1..Len(containers) :
      containers[k].noCollapse => containers[k] = container(TRUE)

C18_Witness ==
    /\ passes = 2
    /\ containers[1].noCollapse
    /\ LinesOf(blocks[1].text) = 16
    /\ containers[1] = container(TRUE)

\* C19: getLineCount counts m+1 lines for a text with m newlines that does
\* not end in a newline, the same number for that text with one newline
\* appended, and for a text that ends in a newline the number of its
\* newlines; the empty text counts 1 line.
C19_TrailingNewlineNotCounted ==
    ret.fn = "getLineCount" =>
      LET m == Cardinality({ i \in 1..Len(text) : text[i] = NL })
          trailing == Len(text) > 0 /\ text[Len(text)] = NL
      IN  /\ ~trailing => ret.val = m + 1 /\ ret.appended = m + 1
          /\ trailing => ret.val = m
          /\ text = <<>> => ret.val = 1

C19_Witness ==
    /\ ret.fn = "getLineCount"
    /\ text = <<"x", NL, "x">>
    /\ ret.val = 2
    /\ ret.appended = 2

\* the sequence s lists each of the items 1..n of a collection once, in
\* ascending order of the sn the document gives them
AscendingBySn(s, coll) ==
    /\ \A i \in 1..Len(s) : s[i] \in 1..Len(coll)
    /\ \A i, j \in 1..Len(s) : i < j => /\ s[i] # s[j]
                                        /\ coll[s[i]].sn <= coll[s[j]].sn

RECURSIVE Flatten(_)
Flatten(rows) == IF rows = <<>> THEN <<>> ELSE Head(rows) \o Flatten(Tail(rows))

\* C20: once the profile is rendered, the projects, the profile links, the
\* likes, the courses of every education entry and the work entries appear
\* in ascending order of sn, each item once, whatever order the document
\* declares them in.
C20_RenderedInSnOrder ==
    request = "done" =>
      LET n == Len(fetched.projects)
          works == { i \in 1..n : fetched.experince[i].type = "work" }
      IN  /\ Len(html.projects) = n
          /\ AscendingBySn(names(html.projects), fetched.projects)
          /\ Len(Flatten(html.links)) = n
          /\ AscendingBySn(Flatten(html.links), fetched.profileLinks)
          /\ Len(html.likes) = n
          /\ AscendingBySn(html.likes, fetched.likes)
          /\ { html.experience[i] : i \in 1..Len(html.experience) } = works
          /\ AscendingBySn(html.experience, fetched.experince)
          /\ \A e \in 1..Len(html.education) :
                /\ Len(html.education[e].courses) = n
                /\ AscendingBySn(html.education[e].courses,
                                 fetched.educations[e].courses)

C20_Witness ==
    /\ request = "done"
    /\ Len(fetched.projects) = 3
    /\ fetched.projects[1].sn = 3
    /\ fetched.projects[2].sn = 1
    /\ fetched.projects[3].sn = 2
    /\ names(html.projects) = <<2, 3, 1>>
    /\ html.likes = <<2, 3, 1>>
    /\ html.links = << <<2, 3, 1>> >>
    /\ html.education[1].courses = <<2, 3, 1>>
    /\ html.experience = <<2, 1>>

\* C21: once the profile is rendered, the skills and the top-level education
\* entries appear in ascending order of sn, each item once, whatever order
\* the document declares them in.
C21_SkillsAndEducationsInSnOrder ==
    request = "done" =>
      /\ Len(Flatten(html.skills)) = Len(fetched.skills)
      /\ AscendingBySn(Flatten(html.skills), fetched.skills)
      /\ Len(html.education) = Len(fetched.educations)
      /\ AscendingBySn(names(html.education), fetched.educations)

\* C22: in the rendered projects, a project whose link is "#" has no anchor,
\* a project with any other non-empty link has the anchor with that link as
\* href, and the rest of a project's markup does not depend on the link.
C22_AnchorOnlyForRealLinks ==
    request = "done" =>
      \A i \in 1..Len(html.projects) :
         LET r == html.projects[i]
             p == fetched.projects[r.name]
         IN  /\ p.link = "#" => r.anchor = Null
             /\ p.link \notin {"#", ""} => r.anchor = p.link
             /\ [r EXCEPT !.anchor = Null] = [name |-> p.name, anchor |-> Null]

C22_Witness ==
    /\ request = "done"
    /\ Len(html.projects) = 2
    /\ fetched.projects[html.projects[1].name].link = "#"
    /\ html.projects[1].anchor = Null
    /\ fetched.projects[html.projects[2].name].link = "url"
    /\ html.projects[2].anchor = "url"

\* C23: whenever the fetch of the profile document has completed with a
\* non-success outcome (the request failed, or the callback was handed a
\* status other than "success"), the browser has been sent to /error.html.
C23_FailureNavigatesToErrorPage ==
    ( \/ request = "failed"
      \/ ret.fn = "callback" /\ ret.val # "success" ) =>
        location = "/error.html"

\* C24: when the callback has observed a status other than "success", the
\* browser is sent to the error page and nothing else has happened: no
\* container is written, the visibility of progress and content is unchanged
\* and the profile variable holds no document.
C24_NoRenderingOnError ==
    ( ret.fn = "callback" /\ ret.val # "success" ) =>
        /\ location = "/error.html"
        /\ html = BlankPage
        /\ profile = Null

C24_Witness ==
    /\ ret.fn = "callback"
    /\ ret.val = "nocontent"
    /\ request = "threw"
    /\ Len(fetched.projects) = 2
    /\ location = "/error.html"
    /\ html = BlankPage
    /\ profile = Null

\* C25: after all render functions have run, every array of the profile held
\* in the module-level variable has the same elements in the same order as
\* in the fetched document.
C25_ProfileNotMutated ==
    request = "done" =>
        /\ profile.projects = fetched.projects
        /\ profile.experince = fetched.experince
        /\ \A i \in 1..Len(fetched.educations) :
              profile.educations[i].courses = fetched.educations[i].courses
        /\ profile.profileLinks = fetched.profileLinks
        /\ profile.likes = fetched.likes
        /\ profile.skills = fetched.skills

\* C26: after the module has loaded, with the global theme object created by
\* an inline bootstrap or by the module, window.theme.setTheme(v) followed
\* by window.theme.setPreference() leaves the stored theme and data-theme
\* equal to v, and setPalette(p) followed by setPreference() leaves the
\* stored palette and data-palette equal to p.
C26_HooksDriveTheStore ==
    [][ /\ ( lastOp.op = "setTheme" /\ lastOp'.op = "setPreference" ) =>
              /\ localStorage'[THEME] = lastOp.arg
              /\ document'.dataTheme = lastOp.arg
        /\ ( lastOp.op = "setPalette" /\ lastOp'.op = "setPreference" ) =>
              /\ localStorage'[PALETTE] = lastOp.arg
              /\ document'.dataPalette = lastOp.arg ]_vars

\* rows cuts list into rows of size items: as many rows as needed and no
\* more, none empty, all but the last full, every item once and in order
RowsPartition(rows, list, size) ==
    /\ Len(rows) = (Len(list) + size - 1) \div size
    /\ \A r \in 1..Len(rows) :
          /\ Len(rows[r]) >= 1
          /\ Len(rows[r]) <= size
          /\ r < Len(rows) => Len(rows[r]) = size
    /\ Flatten(rows) = list

\* C27: for n profile links loadLinks emits ceil(n/5) rows and for n skills
\* loadSkills emits ceil(n/6) rows; no row is empty, every row but the last
\* is full, every item appears once, in list order (for the links: the
\* order after sorting), and no row is emitted for n = 0.
C27_RowsPartitionTheItems ==
    /\ ret.fn \in {"loadLinks", "loadSkills"} =>
          /\ RowsPartition(html.links, names(profile.profileLinks), 5)
          /\ Len(profile.profileLinks) = Len(fetched.profileLinks)
          /\ AscendingBySn(Flatten(html.links), fetched.profileLinks)
    /\ ret.fn = "loadSkills" =>
          RowsPartition(html.skills, names(fetched.skills), 6)

C27_Witness ==
    /\ ret.fn = "loadSkills"
    /\ Len(fetched.skills) = 13
    /\ fetched.profileLinks[1].sn = 13
    /\ Len(html.skills) = 3
    /\ Len(html.skills[3]) = 1
    /\ Len(html.links) = 3
    /\ html.links[3] = <<3, 2, 1>>

C29_HandlersRestoreAValidTheme ==
    lastOp.op \in {"click", "oschange"} =>
        /\ themeValue \in {LIGHT, DARK}
        /\ localStorage[THEME] = themeValue
        /\ document.dataTheme = themeValue
        /\ ( lastOp.op = "click" /\ pre # LIGHT ) => themeValue = LIGHT
        /\ lastOp.op = "oschange" =>
              themeValue = (IF osDark THEN DARK ELSE LIGHT)

C29_Witness ==
    /\ lastOp.op = "click"
    /\ pre = "sepia"
    /\ themeValue = LIGHT
    /\ localStorage[THEME] = LIGHT
    /\ document.dataTheme = LIGHT

\* C30: in the global theme object the module created, the themeValue and
\* paletteValue fields keep the values they had at creation through every
\* click, selection, OS change and hook call, while getTheme() and
\* getPalette() return the theme and palette currently in memory.
C30_FieldsAreSnapshots ==
    [][ /\ ( windowTheme.owner = "module" /\ windowTheme'.owner = "module" ) =>
              /\ windowTheme'.themeValue = windowTheme.themeValue
              /\ windowTheme'.paletteValue = windowTheme.paletteValue
        /\ ret'.fn = "getters" =>
              /\ ret'.val[1] = themeValue'
              /\ ret'.val[2] = paletteValue'
      ]_vars

C30_Witness ==
    /\ ret.fn = "getters"
    /\ windowTheme.owner = "module"
    /\ windowTheme.themeValue = LIGHT
    /\ windowTheme.paletteValue = DEFAULT_PALETTE
    /\ themeValue = DARK
    /\ paletteValue = "ocean"
    /\ ret.val[1] = DARK
    /\ ret.val[2] = "ocean"
    /\ localStorage[THEME] = DARK
    /\ localStorage[PALETTE] = "ocean"

====
